---------------------------- MODULE Spec2Model ----------------------------
(***************************************************************************)
(* Model of Sources/BinarySpec.h: BinarySpec_createNonBlockingSocket,      *)
(* fcntl0 and fcntl1, running against a model of the descriptor table of   *)
(* the operating system (socket, fcntl, setsockopt, close).                *)
(*                                                                         *)
(* Every OS call is one step.  Its outcome (success or failure) is chosen  *)
(* by the environment, except where the OS has no choice (a call on a      *)
(* descriptor that is not open fails with EBADF, socket() on a full table  *)
(* fails with EMFILE, an unsupported family fails with EAFNOSUPPORT).  A   *)
(* socket() the environment makes fail stands for a process that has hit   *)
(* its descriptor limit, and fails with EMFILE as well.                    *)
(***************************************************************************)
EXTENDS Integers, Sequences, FiniteSets

(***************************************************************************)
(* Bounds of the model.                                                    *)
(***************************************************************************)
\* Size of the descriptor table: descriptors are 0 .. MaxFd-1.
MaxFd == 2
\* Width of a C int in the model (two's complement).
IntBits == 6

(***************************************************************************)
(* Constants of <fcntl.h> used by the header (Darwin values).              *)
(***************************************************************************)
O_RDWR == 2
O_NONBLOCK == 4
O_APPEND == 8

Threads == {1, 2}
SeqThreads == {1}
Fds == 0 .. (MaxFd - 1)

Families == {"AF_INET", "AF_BOGUS"}
SupportedFamilies == {"AF_INET"}
Types == {"SOCK_STREAM"}

(***************************************************************************)
(* C int arithmetic: two's complement, IntBits wide.                       *)
(***************************************************************************)
RECURSIVE SumPow(_)
SumPow(S) ==
  IF S = {} THEN 0
  ELSE LET i == CHOOSE x \in S : TRUE IN 2^i + SumPow(S \ {i})

ToU(x) == x % (2^IntBits)
Bits(x) == {i \in 0 .. (IntBits - 1) : (ToU(x) \div (2^i)) % 2 = 1}
FromBits(S) ==
  LET u == SumPow(S) IN IF (IntBits - 1) \in S THEN u - 2^IntBits ELSE u
BitOr(a, b) == FromBits(Bits(a) \cup Bits(b))
BitAnd(a, b) == FromBits(Bits(a) \cap Bits(b))
BitNot(a) == FromBits((0 .. (IntBits - 1)) \ Bits(a))

(***************************************************************************)
(* The operating system.                                                   *)
(***************************************************************************)
\* Status flags F_SETFL can change; access mode bits are ignored by F_SETFL.
O_SETTABLE == BitOr(O_NONBLOCK, O_APPEND)
\* Status flags a new socket may start with.
InitFlags == {O_RDWR, BitOr(O_RDWR, O_APPEND)}
\* Values a caller may hand to fcntl1, and what an absent variadic argument
\* may be read as.
ArgValues == {0, -1}
Options == {"F_GETFL", "F_SETFL"}
BadFd == 0 - 1

VARIABLES
  open,    \* OS: the set of open descriptors
  fl,      \* OS: file status flags of each descriptor (0 when closed)
  opts,    \* OS: socket options set on each descriptor
  owned,   \* descriptors handed to callers and not yet closed by them
  seen,    \* the <<kind, return value>> pairs of the failed calls so far
  pc,      \* per thread: position in the code
  sck,     \* per thread: local sck
  got,     \* per thread: result of the inner fcntl(sck, F_GETFL)
  res,     \* per thread: local res
  ret,     \* per thread: value returned
  errno,   \* per thread: errno
  log,     \* per thread: the OS calls of the current call, in order
  before,  \* per thread: the open descriptors when the current call started
  fl0,     \* per thread: the flags of sck right after socket()
  wrap     \* per thread: the fcntl0 / fcntl1 call that has just returned

vars == <<open, fl, opts, owned, seen, pc, sck, got, res, ret, errno, log, before, fl0, wrap>>
osVars == <<open, fl, opts>>
locals == <<sck, got, res, ret>>

NoWrap == [fn |-> "-", fd |-> 0, option |-> "-", value |-> 0]

Entry(call, fd, cmd, nargs, arg, r, e) ==
  [call |-> call, fd |-> fd, cmd |-> cmd, nargs |-> nargs, arg |-> arg,
   res |-> r, err |-> e]

Min(S) == CHOOSE x \in S : \A y \in S : x <= y

\* socket(family, type, 0): the result and the error code.
KSocket(family, type, ok) ==
  IF family \notin SupportedFamilies THEN [res |-> -1, err |-> "EAFNOSUPPORT"]
  ELSE IF Fds \ open = {} \/ ~ok THEN [res |-> -1, err |-> "EMFILE"]
  ELSE [res |-> Min(Fds \ open), err |-> "0"]

\* F_SETFL: the settable bits come from arg, the others stay.
KSetfl(old, arg) == BitOr(BitAnd(old, BitNot(O_SETTABLE)), BitAnd(arg, O_SETTABLE))

\* fcntl(fd, cmd [, arg]): the result, the error code and the new flags.
KFcntl(fd, cmd, arg, ok) ==
  IF fd \notin open THEN [res |-> -1, err |-> "EBADF", fl |-> fl]
  ELSE IF ~ok THEN [res |-> -1, err |-> "EINVAL", fl |-> fl]
  ELSE IF cmd = "F_GETFL" THEN [res |-> fl[fd], err |-> "0", fl |-> fl]
  ELSE [res |-> 0, err |-> "0", fl |-> [fl EXCEPT ![fd] = KSetfl(fl[fd], arg)]]

\* setsockopt(fd, SOL_SOCKET, opt, &yes, sizeof yes)
KSetsockopt(fd, opt, ok) ==
  IF fd \notin open THEN [res |-> -1, err |-> "EBADF", opts |-> opts]
  ELSE IF ~ok THEN [res |-> -1, err |-> "ENOPROTOOPT", opts |-> opts]
  ELSE [res |-> 0, err |-> "0", opts |-> [opts EXCEPT ![fd] = @ \cup {opt}]]

\* close(fd): an open descriptor is released whatever close returns.
KClose(fd, ok) ==
  IF fd \notin open THEN [res |-> -1, err |-> "EBADF"]
  ELSE IF ~ok THEN [res |-> -1, err |-> "EINTR"]
  ELSE [res |-> 0, err |-> "0"]

Released(fd) ==
  /\ open' = open \ {fd}
  /\ fl' = IF fd \in Fds THEN [fl EXCEPT ![fd] = 0] ELSE fl
  /\ opts' = IF fd \in Fds THEN [opts EXCEPT ![fd] = {}] ELSE opts

\* errno after a call: set on failure, left alone on success.
Errno(t, r) == IF r.res < 0 THEN [errno EXCEPT ![t] = r.err] ELSE errno

Init ==
  /\ open = {}
  /\ fl = [f \in Fds |-> 0]
  /\ opts = [f \in Fds |-> {}]
  /\ owned = {}
  /\ seen = {}
  /\ pc = [t \in Threads |-> "idle"]
  /\ sck = [t \in Threads |-> 0]
  /\ got = [t \in Threads |-> 0]
  /\ res = [t \in Threads |-> 0]
  /\ ret = [t \in Threads |-> 0]
  /\ errno = [t \in Threads |-> "0"]
  /\ log = [t \in Threads |-> <<>>]
  /\ before = [t \in Threads |-> {}]
  /\ fl0 = [t \in Threads |-> 0]
  /\ wrap = [t \in Threads |-> NoWrap]

(***************************************************************************)
(* BinarySpec_createNonBlockingSocket(family, type)                        *)
(***************************************************************************)
\* int sck = socket(family, type, 0);
L29(t, family, type, ok, f0) ==
  /\ pc[t] = "idle"
  /\ LET r == KSocket(family, type, ok) IN
       /\ sck' = [sck EXCEPT ![t] = r.res]
       /\ errno' = Errno(t, r)
       /\ open' = IF r.res >= 0 THEN open \cup {r.res} ELSE open
       /\ fl' = IF r.res >= 0 THEN [fl EXCEPT ![r.res] = f0] ELSE fl
       /\ fl0' = [fl0 EXCEPT ![t] = IF r.res >= 0 THEN f0 ELSE 0]
       /\ log' = [log EXCEPT ![t] = <<Entry("socket", r.res, family, 0, 0, r.res, r.err)>>]
  /\ before' = [before EXCEPT ![t] = open]
  /\ pc' = [pc EXCEPT ![t] = "L30"]
  /\ UNCHANGED <<opts, owned, seen, got, res, ret, wrap>>

\* if (sck < 0) { return -1; }
L30_cleanup(t) ==
  /\ pc[t] = "L30"
  /\ pc' = [pc EXCEPT ![t] = IF sck[t] < 0 THEN "L36" ELSE "L34get"]
  /\ UNCHANGED <<osVars, owned, seen, locals, errno, log, before, fl0, wrap>>

L30(t) ==
  /\ pc[t] = "L30"
  /\ IF sck[t] < 0
       THEN /\ ret' = [ret EXCEPT ![t] = -1]
            /\ pc' = [pc EXCEPT ![t] = "ret"]
       ELSE /\ ret' = ret
            /\ pc' = [pc EXCEPT ![t] = "L34get"]
  /\ UNCHANGED <<osVars, owned, seen, sck, got, res, errno, log, before, fl0, wrap>>

\* the argument of the outer call: fcntl(sck, F_GETFL)
L34get(t, ok) ==
  /\ pc[t] = "L34get"
  /\ LET r == KFcntl(sck[t], "F_GETFL", 0, ok) IN
       /\ got' = [got EXCEPT ![t] = r.res]
       /\ errno' = Errno(t, r)
       /\ log' = [log EXCEPT ![t] = Append(@, Entry("fcntl", sck[t], "F_GETFL", 0, 0, r.res, r.err))]
  /\ pc' = [pc EXCEPT ![t] = "L34set"]
  /\ UNCHANGED <<osVars, owned, seen, sck, res, ret, before, fl0, wrap>>

\* O_NONBLOCK | fcntl(sck, F_GETFL)
SetflArg_noflag(g) == g

SetflArg(g) == BitOr(O_NONBLOCK, g)

\* int res = fcntl(sck, F_SETFL, ...);
L34set(t, ok) ==
  /\ pc[t] = "L34set"
  /\ LET a == SetflArg(got[t])
         r == KFcntl(sck[t], "F_SETFL", a, ok) IN
       /\ res' = [res EXCEPT ![t] = r.res]
       /\ fl' = r.fl
       /\ errno' = Errno(t, r)
       /\ log' = [log EXCEPT ![t] = Append(@, Entry("fcntl", sck[t], "F_SETFL", 1, a, r.res, r.err))]
  /\ pc' = [pc EXCEPT ![t] = "L35"]
  /\ UNCHANGED <<open, opts, owned, seen, sck, got, ret, before, fl0, wrap>>

\* if (res < 0) { ... }
L35_leak(t) ==
  /\ pc[t] = "L35"
  /\ IF res[t] < 0
       THEN /\ ret' = [ret EXCEPT ![t] = -1]
            /\ pc' = [pc EXCEPT ![t] = "ret"]
       ELSE /\ ret' = ret
            /\ pc' = [pc EXCEPT ![t] = "L41"]
  /\ UNCHANGED <<osVars, owned, seen, sck, got, res, errno, log, before, fl0, wrap>>

L35(t) ==
  /\ pc[t] = "L35"
  /\ pc' = [pc EXCEPT ![t] = IF res[t] < 0 THEN "L36" ELSE "L41"]
  /\ UNCHANGED <<osVars, owned, seen, locals, errno, log, before, fl0, wrap>>

\* close(sck); return -1;
L36_retsck(t, ok) ==
  /\ pc[t] = "L36"
  /\ LET r == KClose(sck[t], ok) IN
       /\ IF sck[t] \in open THEN Released(sck[t]) ELSE UNCHANGED osVars
       /\ errno' = Errno(t, r)
       /\ log' = [log EXCEPT ![t] = Append(@, Entry("close", sck[t], "-", 0, 0, r.res, r.err))]
  /\ ret' = [ret EXCEPT ![t] = sck[t]]
  /\ pc' = [pc EXCEPT ![t] = "ret"]
  /\ UNCHANGED <<owned, seen, sck, got, res, before, fl0, wrap>>

L36(t, ok) ==
  /\ pc[t] = "L36"
  /\ LET r == KClose(sck[t], ok) IN
       /\ IF sck[t] \in open THEN Released(sck[t]) ELSE UNCHANGED osVars
       /\ errno' = Errno(t, r)
       /\ log' = [log EXCEPT ![t] = Append(@, Entry("close", sck[t], "-", 0, 0, r.res, r.err))]
  /\ ret' = [ret EXCEPT ![t] = -1]
  /\ pc' = [pc EXCEPT ![t] = "ret"]
  /\ UNCHANGED <<owned, seen, sck, got, res, before, fl0, wrap>>

\* setsockopt(sck, SOL_SOCKET, opt, &yes, sizeof(yes)); the result is dropped
Setsockopt(t, opt, ok, next) ==
  /\ LET r == KSetsockopt(sck[t], opt, ok) IN
       /\ opts' = r.opts
       /\ errno' = Errno(t, r)
       /\ log' = [log EXCEPT ![t] = Append(@, Entry("setsockopt", sck[t], opt, 0, 1, r.res, r.err))]
  /\ pc' = [pc EXCEPT ![t] = next]
  /\ UNCHANGED <<open, fl, owned, seen, locals, before, fl0, wrap>>

L41_checked(t, ok) ==
  /\ pc[t] = "L41"
  /\ Setsockopt(t, "SO_REUSEADDR", ok, IF ok THEN "L42" ELSE "L36")

L41(t, ok) ==
  /\ pc[t] = "L41"
  /\ Setsockopt(t, "SO_REUSEADDR", ok, "L42")

L42(t, ok) ==
  /\ pc[t] = "L42"
  /\ Setsockopt(t, "SO_NOSIGPIPE", ok, "L44")

\* return sck;
L44_closed(t) ==
  /\ pc[t] = "L44"
  /\ Released(sck[t])
  /\ ret' = [ret EXCEPT ![t] = sck[t]]
  /\ pc' = [pc EXCEPT ![t] = "ret"]
  /\ UNCHANGED <<owned, seen, sck, got, res, errno, log, before, fl0, wrap>>

L44(t) ==
  /\ pc[t] = "L44"
  /\ ret' = [ret EXCEPT ![t] = sck[t]]
  /\ pc' = [pc EXCEPT ![t] = "ret"]
  /\ UNCHANGED <<osVars, owned, seen, sck, got, res, errno, log, before, fl0, wrap>>

(***************************************************************************)
(* The caller.                                                             *)
(***************************************************************************)
\* Which step made the call fail: socket(), or the non-blocking configuration.
Kind(t) == IF log[t][1].res < 0 THEN "creation" ELSE "configuration"

\* The call returns: a returned descriptor now belongs to the caller.
Return(t) ==
  /\ pc[t] = "ret"
  /\ owned' = IF ret[t] >= 0 THEN owned \cup {ret[t]} ELSE owned
  /\ seen' = IF ret[t] < 0 THEN seen \cup {<<Kind(t), ret[t]>>} ELSE seen
  /\ pc' = [pc EXCEPT ![t] = "idle"]
  /\ sck' = [sck EXCEPT ![t] = 0]
  /\ got' = [got EXCEPT ![t] = 0]
  /\ res' = [res EXCEPT ![t] = 0]
  /\ ret' = [ret EXCEPT ![t] = 0]
  /\ log' = [log EXCEPT ![t] = <<>>]
  /\ before' = [before EXCEPT ![t] = {}]
  /\ fl0' = [fl0 EXCEPT ![t] = 0]
  /\ UNCHANGED <<osVars, errno, wrap>>

\* The caller closes a descriptor it was given.
CallerClose(t, fd) ==
  /\ pc[t] = "idle"
  /\ fd \in owned
  /\ Released(fd)
  /\ owned' = owned \ {fd}
  /\ UNCHANGED <<seen, pc, locals, errno, log, before, fl0, wrap>>

(***************************************************************************)
(* fcntl0(fd, option) and fcntl1(fd, option, value)                        *)
(***************************************************************************)
\* One fcntl call made by a wrapper; its result is what the wrapper returns.
Wrapper(t, fn, fd, option, value, nargs, arg, ok) ==
  /\ pc[t] = "idle"
  /\ fd \in owned \cup {BadFd}
  /\ LET r == KFcntl(fd, option, arg, ok) IN
       /\ ret' = [ret EXCEPT ![t] = r.res]
       /\ fl' = r.fl
       /\ errno' = Errno(t, r)
       /\ log' = [log EXCEPT ![t] = <<Entry("fcntl", fd, option, nargs, arg, r.res, r.err)>>]
  /\ before' = [before EXCEPT ![t] = open]
  /\ wrap' = [wrap EXCEPT ![t] = [fn |-> fn, fd |-> fd, option |-> option, value |-> value]]
  /\ pc' = [pc EXCEPT ![t] = "wret"]
  /\ UNCHANGED <<open, opts, owned, seen, sck, got, res, fl0>>

\* return fcntl(fd, option);  with no third argument F_SETFL reads junk
fcntl0(t, fd, option, ok, junk) ==
  /\ option = "F_GETFL" => junk = 0
  /\ Wrapper(t, "fcntl0", fd, option, 0, 0, junk, ok)

\* return fcntl(fd, option, value);
fcntl1_novalue(t, fd, option, value, ok) ==
  Wrapper(t, "fcntl1", fd, option, value, 1, 0, ok)

fcntl1(t, fd, option, value, ok) ==
  Wrapper(t, "fcntl1", fd, option, value, 1, value, ok)

\* The wrapper's caller takes the result.
WrapReturn(t) ==
  /\ pc[t] = "wret"
  /\ pc' = [pc EXCEPT ![t] = "idle"]
  /\ ret' = [ret EXCEPT ![t] = 0]
  /\ log' = [log EXCEPT ![t] = <<>>]
  /\ before' = [before EXCEPT ![t] = {}]
  /\ wrap' = [wrap EXCEPT ![t] = NoWrap]
  /\ UNCHANGED <<osVars, owned, seen, sck, got, res, errno, fl0>>

(***************************************************************************)
(* Specifications: one caller (Spec), and two threads whose calls          *)
(* interleave OS call by OS call (ConcSpec).                               *)
(***************************************************************************)
\* The steps of one call of BinarySpec_createNonBlockingSocket.
Create(t) ==
  \/ \E family \in Families, type \in Types, ok \in BOOLEAN, f0 \in InitFlags :
       L29(t, family, type, ok, f0)
  \/ L30(t)
  \/ \E ok \in BOOLEAN : L34get(t, ok)
  \/ \E ok \in BOOLEAN : L34set(t, ok)
  \/ L35(t)
  \/ \E ok \in BOOLEAN : L36(t, ok)
  \/ \E ok \in BOOLEAN : L41(t, ok)
  \/ \E ok \in BOOLEAN : L42(t, ok)
  \/ L44(t)

Caller(t) ==
  \/ Return(t)
  \/ \E fd \in Fds : CallerClose(t, fd)

Wrappers(t) ==
  \/ \E fd \in Fds \cup {BadFd}, option \in Options, ok \in BOOLEAN, junk \in ArgValues :
       fcntl0(t, fd, option, ok, junk)
  \/ \E fd \in Fds \cup {BadFd}, option \in Options, value \in ArgValues, ok \in BOOLEAN :
       fcntl1(t, fd, option, value, ok)
  \/ WrapReturn(t)

Next == \E t \in SeqThreads : Create(t) \/ Caller(t) \/ Wrappers(t)

Spec == Init /\ [][Next]_vars

ConcNext == \E t \in Threads : Create(t) \/ Caller(t)

ConcSpec == Init /\ [][ConcNext]_vars

(***************************************************************************)
(* Vocabulary of the properties.                                           *)
(***************************************************************************)
CreatePcs == {"L30", "L34get", "L34set", "L35", "L36", "L41", "L42", "L44", "ret"}
InCreate(t) == pc[t] \in CreatePcs
Returned(t) == pc[t] = "ret"
\* The entries of the current call's log that are calls of `call` with command `cmd`.
Calls(t, call, cmd) ==
  {i \in 1 .. Len(log[t]) : log[t][i].call = call /\ log[t][i].cmd = cmd}
SocketFailed(t) == InCreate(t) /\ log[t][1].res < 0
GetflFailed(t) == \E i \in Calls(t, "fcntl", "F_GETFL") : log[t][i].res < 0
SetflFailed(t) == \E i \in Calls(t, "fcntl", "F_SETFL") : log[t][i].res < 0
SetflOk(t) == \E i \in Calls(t, "fcntl", "F_SETFL") : log[t][i].res >= 0
NonBlocking(fd) == BitAnd(fl[fd], O_NONBLOCK) = O_NONBLOCK

\* C1: a returned descriptor (a value >= 0) is open and has O_NONBLOCK set,
\* whatever the outcomes of socket, the two fcntl calls and the two
\* setsockopt calls were.
C1_ReturnedOpenNonBlocking ==
  \A t \in Threads :
    (Returned(t) /\ ret[t] >= 0) => (ret[t] \in open /\ NonBlocking(ret[t]))

\* A descriptor has been returned by a call in which some OS call failed.
C1_Witness ==
  /\ Returned(1) /\ ret[1] >= 0
  /\ \E i \in 1 .. Len(log[1]) : log[1][i].res < 0

\* C2: when socket() fails the call makes no other OS call (no fcntl, no
\* setsockopt, no close), returns -1, and the set of open descriptors is
\* the one the call started with.
C2_SocketFailure ==
  \A t \in Threads :
    SocketFailed(t) =>
      /\ Len(log[t]) = 1
      /\ pc[t] \in {"L30", "ret"}
      /\ Returned(t) => ret[t] = -1
      /\ open = before[t]

\* socket() has failed while the caller holds a descriptor, and the call
\* has returned.
C2_Witness ==
  Returned(1) /\ SocketFailed(1) /\ before[1] # {}

\* C3: when socket() succeeds and fcntl F_SETFL fails, the call closes its
\* descriptor and returns -1; the set of open descriptors is the one the
\* call started with.
C3_SetflFailure ==
  \A t \in Threads :
    (Returned(t) /\ SetflFailed(t)) =>
      /\ ret[t] = -1
      /\ sck[t] \notin open
      /\ open = before[t]
      /\ \E i \in Calls(t, "close", "-") : log[t][i].fd = sck[t]

\* F_SETFL has failed after a successful F_GETFL, the caller holds another
\* descriptor, and the call has returned.
C3_Witness ==
  Returned(1) /\ SetflFailed(1) /\ ~GetflFailed(1) /\ before[1] # {}

\* C4: when socket() succeeds and fcntl F_GETFL fails, the call closes the
\* descriptor and returns failure, whatever F_SETFL returns.
C4_GetflFailure ==
  \A t \in Threads :
    (Returned(t) /\ GetflFailed(t)) => (ret[t] < 0 /\ sck[t] \notin open)

\* C5: the flags of a returned descriptor are the flags it had right after
\* socket() with O_NONBLOCK added, every other bit as it was.
C5_FlagsPreserved ==
  \A t \in Threads :
    (Returned(t) /\ ret[t] >= 0) => fl[ret[t]] = BitOr(fl0[t], O_NONBLOCK)

\* C5, for the calls whose F_GETFL succeeded: there the read-modify-write
\* keeps the other flags.
C5_FlagsPreservedWhenRead ==
  \A t \in Threads :
    (Returned(t) /\ ret[t] >= 0 /\ ~GetflFailed(t)) =>
      fl[ret[t]] = BitOr(fl0[t], O_NONBLOCK)

\* C6: once socket() and the non-blocking configuration have succeeded, the
\* call makes both setsockopt calls on its descriptor (SO_REUSEADDR, then
\* SO_NOSIGPIPE), never closes, and returns that descriptor, open and
\* non-blocking, whatever the two setsockopt calls return.
C6_OptionsNonFatal ==
  \A t \in Threads :
    (InCreate(t) /\ SetflOk(t)) =>
      /\ Calls(t, "close", "-") = {}
      /\ pc[t] \in {"L35", "L41", "L42", "L44", "ret"}
      /\ Returned(t) =>
           /\ ret[t] = sck[t] /\ ret[t] \in open /\ NonBlocking(ret[t])
           /\ Len(log[t]) = 5
           /\ log[t][4].call = "setsockopt" /\ log[t][4].cmd = "SO_REUSEADDR"
           /\ log[t][4].fd = sck[t]
           /\ log[t][5].call = "setsockopt" /\ log[t][5].cmd = "SO_NOSIGPIPE"
           /\ log[t][5].fd = sck[t]

\* SO_REUSEADDR has failed, SO_NOSIGPIPE was still attempted (and worked),
\* and the descriptor has been returned.
C6_Witness ==
  /\ Returned(1) /\ SetflOk(1) /\ Len(log[1]) = 5
  /\ log[1][4].res < 0 /\ log[1][5].res >= 0
  /\ ret[1] >= 0

\* The other three combinations of the two setsockopt outcomes.
C6_WitnessBothFail ==
  Returned(1) /\ SetflOk(1) /\ Len(log[1]) = 5 /\ log[1][4].res < 0 /\ log[1][5].res < 0
C6_WitnessSecondFails ==
  Returned(1) /\ SetflOk(1) /\ Len(log[1]) = 5 /\ log[1][4].res >= 0 /\ log[1][5].res < 0
C6_WitnessBothOk ==
  Returned(1) /\ SetflOk(1) /\ Len(log[1]) = 5 /\ log[1][4].res >= 0 /\ log[1][5].res >= 0

\* The descriptors the factory holds: created by a call that has not yet
\* closed or returned them, or returned and not yet taken by the caller.
Held ==
  {sck[t] : t \in {u \in Threads : pc[u] \in CreatePcs \ {"ret"} /\ sck[u] >= 0}}
  \cup {ret[t] : t \in {u \in Threads : Returned(u) /\ ret[u] >= 0}}

\* C7: the open descriptors are exactly those returned to callers (and not
\* yet closed by them) and those of the calls in progress; a failed call
\* has closed the descriptor it created exactly once, that close found the
\* descriptor open, and a call that returns a descriptor has closed nothing.
C7_Ownership ==
  /\ open = owned \cup Held
  /\ owned \cap Held = {}
  /\ \A t \in Threads :
       InCreate(t) =>
         /\ \A i \in Calls(t, "close", "-") :
              log[t][i].fd = sck[t] /\ log[t][i].err # "EBADF"
         /\ Returned(t) =>
              Cardinality(Calls(t, "close", "-")) =
                (IF ret[t] < 0 /\ ~SocketFailed(t) THEN 1 ELSE 0)

\* After a call that failed in the configuration step (and so closed its
\* descriptor) the caller holds a returned descriptor and nothing is in
\* progress.
C7_Witness ==
  /\ pc[1] = "idle"
  /\ owned # {}
  /\ <<"configuration", -1>> \in seen

\* The error code of the step that made the call fail.
FailCode(t) ==
  IF SocketFailed(t) THEN log[t][1].err
  ELSE LET i == CHOOSE j \in Calls(t, "fcntl", "F_SETFL") : TRUE IN log[t][i].err

OwnOnly(t) ==
  /\ \A fd \in Fds \ {sck'[t]} :
       /\ fl'[fd] = fl[fd] /\ opts'[fd] = opts[fd]
       /\ (fd \in open') = (fd \in open)
  /\ \A u \in Threads \ {t} :
       /\ sck'[u] = sck[u] /\ got'[u] = got[u] /\ res'[u] = res[u]
       /\ ret'[u] = ret[u] /\ errno'[u] = errno[u] /\ log'[u] = log[u]
       /\ pc'[u] = pc[u]
CreateStep(t) == pc'[t] # pc[t] /\ pc'[t] \in CreatePcs

\* C9: interleaved calls do not interfere: each step of a call touches
\* only that call's descriptor and locals, and every returned descriptor
\* is open, non-blocking and has its other flags preserved.
C9_Independent ==
  [][/\ \A t \in Threads : CreateStep(t) => OwnOnly(t)
     /\ C1_ReturnedOpenNonBlocking'
     /\ C5_FlagsPreserved']_vars

\* C9 without the preservation of the other flags.
C9_NoInterference ==
  [][/\ \A t \in Threads : CreateStep(t) => OwnOnly(t)
     /\ C1_ReturnedOpenNonBlocking'
     /\ C5_FlagsPreservedWhenRead']_vars

\* C10: a call of fcntl0 or fcntl1 makes exactly one fcntl call, on fd,
\* with the option (and for fcntl1 the value) given, returns its result as
\* it is, and changes nothing but what that fcntl call changes.
C10_PassThrough ==
  [][\A t \in Threads :
       (pc[t] = "idle" /\ pc'[t] = "wret") =>
         LET e == log'[t][1]
             w == wrap'[t] IN
           /\ Len(log'[t]) = 1
           /\ e.call = "fcntl" /\ e.fd = w.fd /\ e.cmd = w.option
           /\ w.fn = "fcntl1" => (e.nargs = 1 /\ e.arg = w.value)
           /\ w.fn = "fcntl0" => e.nargs = 0
           /\ ret'[t] = e.res
           /\ open' = open /\ opts' = opts /\ owned' = owned
           /\ fl' = KFcntl(e.fd, e.cmd, e.arg, e.res >= 0).fl
           /\ e.res < 0 => fl' = fl]_vars

\* fcntl1(fd, F_SETFL, 0) has returned 0 and cleared O_NONBLOCK on fd.
C10_Witness ==
  /\ pc[1] = "wret"
  /\ wrap[1] = [fn |-> "fcntl1", fd |-> 0, option |-> "F_SETFL", value |-> 0]
  /\ ret[1] = 0
  /\ 0 \in owned /\ ~NonBlocking(0)

\* fcntl0 has passed a negative result through.
C10_WitnessError ==
  pc[1] = "wret" /\ wrap[1].fn = "fcntl0" /\ ret[1] = -1

=============================================================================
